---- MODULE Spec2Model ----
(***************************************************************************)
(* Model of src/index.js (bulk SMTP verifier): the response parser, the    *)
(* resolver getMxHosts, the probe session smtpProbe and the verification   *)
(* engine verifyEmail.                                                     *)
(*                                                                         *)
(* Text is modelled at character level.  A character received from a       *)
(* server is a record [ch, of]: ch is the character, of names the stimulus *)
(* (GREET, EHLO, MAIL, RCPT) the server was answering when it produced it. *)
(* The code reads ch only; of is bookkeeping used by the properties.       *)
(* The line terminator CRLF is the single character NL.                    *)
(*                                                                         *)
(* Time is modelled by ages: the time elapsed since the global timer was   *)
(* armed (timerAge) and since the current command's write callback ran     *)
(* (cmdAge).  Tick advances both by one TIMEOUT period.  Handlers of due   *)
(* timers may run arbitrarily late, in any order.                          *)
(*                                                                         *)
(* A connection ends by a socket error (the 'error' handler runs) or by    *)
(* the server closing it (no handler is registered for that); in both      *)
(* cases later writes fail.                                                *)
(*                                                                         *)
(* Specifications: SpecProbe and FairProbe follow one smtpProbe call, also *)
(* after its promise has settled, against servers that answer in one or in *)
(* several lines.  Spec and FairSpec follow one verifyEmail call: the      *)
(* lookups of getMxHosts, and each smtpProbe call while it is awaited,     *)
(* against servers that answer in one line.                                *)
(***************************************************************************)
EXTENDS Integers, Sequences, FiniteSets, TLC

VARIABLES
  s,               \* the closure of the current smtpProbe call (socket, buffer, closed, timer, ...)
  email,           \* argument of verifyEmail, a sequence of tokens
  epc,             \* position of verifyEmail / getMxHosts
  hosts,           \* const hosts = await getMxHosts(domain)
  idx,             \* position of the for-of loop over hosts (1-based)
  classification,  \* value verifyEmail returned: <<>> until it returns
  mxAnswer,        \* what dns.resolveMx resolved with: <<>> before, <<mx>> after
  probes,          \* log of the smtpProbe calls made, each with the reply it settled with
  openConns        \* connections created by net.createConnection and not yet ended

vars == <<s, email, epc, hosts, idx, classification, mxAnswer, probes, openConns>>

(***************************************************************************)
(* Program constants                                                       *)
(***************************************************************************)
TIMEOUT == 8000

roleBased ==
  { <<"admin">>, <<"support">>, <<"info">>, <<"contact">>, <<"sales">>,
    <<"help">>, <<"billing">>, <<"webmaster">>, <<"security">> }

disposableDomains ==
  { <<"tempmail.com">>, <<"10minutemail.com">>, <<"guerrillamail.com">>,
    <<"yopmail.com">>, <<"mailinator.com">> }

(***************************************************************************)
(* Characters and reply texts                                              *)
(***************************************************************************)
NL == "\n"
DigitChars == <<"0", "1", "2", "3", "4", "5", "6", "7", "8", "9">>
IsDigit(c) == \E d \in 1..10 : DigitChars[d] = c
DigitVal(c) == (CHOOSE d \in 1..10 : DigitChars[d] = c) - 1

Tagged(chars, tag) == [i \in 1..Len(chars) |-> [ch |-> chars[i], of |-> tag]]

\* one reply line "ddd<sep>" CRLF, as a server writes it
ReplyLine(code, sep, tag) ==
  Tagged(<< DigitChars[(code \div 100) + 1], DigitChars[((code \div 10) % 10) + 1],
            DigitChars[(code % 10) + 1], sep, NL >>, tag)

SingleLine(code, tag) == ReplyLine(code, " ", tag)
MultiLine(code, tag) == ReplyLine(code, "-", tag) \o ReplyLine(code, " ", tag)

(***************************************************************************)
(* parseSMTPResponse                                                       *)
(***************************************************************************)
Max(S) == CHOOSE x \in S : \A y \in S : y <= x

\* text.split(/\r\n|\n/).filter(Boolean)
RECURSIVE SplitLines(_)
SplitLines(text) ==
  IF text = <<>> THEN <<>>
  ELSE LET brk == {i \in 1..Len(text) : text[i].ch = NL}
           cut == IF brk = {} THEN Len(text) + 1
                  ELSE CHOOSE i \in brk : \A j \in brk : i <= j
           head == SubSeq(text, 1, cut - 1)
           rest == SubSeq(text, cut + 1, Len(text))
       IN (IF head = <<>> THEN <<>> ELSE <<head>>) \o SplitLines(rest)

\* lines[i].match(/^(\d{3})[ -](.*)/)
LineMatches(line) ==
  /\ Len(line) >= 4
  /\ \A i \in 1..3 : IsDigit(line[i].ch)
  /\ line[4].ch \in {" ", "-"}

\* parseInt(m[1], 10)
ParseInt(line) ==
  100 * DigitVal(line[1].ch) + 10 * DigitVal(line[2].ch) + DigitVal(line[3].ch)

\* <<>> is null; otherwise <<[code, message, lines]>>, lines being the text
\* lines.join('\n') of the message
parseSMTPResponse(text) ==
  LET lines == SplitLines(text)
      hits == {i \in 1..Len(lines) : LineMatches(lines[i])}
  IN IF hits = {} THEN <<>>
     ELSE <<[code |-> ParseInt(lines[Max(hits)]), message |-> "reply", lines |-> lines]>>

\* if (parsed && parsed.code)
Truthy(parsed) == parsed # <<>> /\ parsed[1].code # 0

(***************************************************************************)
(* smtpProbe: the closure                                                  *)
(***************************************************************************)
NoHost == <<>>

NoSession ==
  [host |-> NoHost, to |-> <<>>, server |-> "terse", sock |-> "none", buffer |-> <<>>, closed |-> FALSE,
   endCount |-> 0, timer |-> "none", timerAge |-> 0, pc |-> "none", cmd |-> "GREET",
   cmdAge |-> 0, wire |-> <<>>, answered |-> 0, sent |-> <<>>, early |-> <<>>,
   result |-> <<>>]

\* the synchronous part of smtpProbe(host, 25, from, to): createConnection,
\* buffer = '', closed = false, setTimeout(..., TIMEOUT), handlers registered
\* server is the kind of server that listens at host (see ReplyChoices)
smtpProbe(host, to, server) ==
  [NoSession EXCEPT !.host = host, !.to = to, !.server = server, !.sock = "connecting",
                    !.timer = "armed", !.pc = "idle"]

Rcpt(code, message) == [code |-> code, message |-> message, lines |-> <<>>]

\* cleanup without the closed flag
cleanup_unguarded(p) ==
  [p EXCEPT !.closed = TRUE, !.endCount = @ + 1]

cleanup(p) ==
  IF ~p.closed THEN [p EXCEPT !.closed = TRUE, !.endCount = @ + 1] ELSE p

\* the promise's resolve: only the first call settles it
resolve(p, rcpt) ==
  IF p.result = <<>> THEN [p EXCEPT !.result = <<rcpt>>] ELSE p

clearTimeout(p) ==
  [p EXCEPT !.timer = IF @ = "armed" THEN "cleared" ELSE @]

\* setTimeout(() => { cleanup(); resolve(timeout) }, TIMEOUT)
onTimer(p) ==
  resolve(cleanup([p EXCEPT !.timer = "fired"]), Rcpt(0, "timeout"))

\* the error handler without its resolve
onError_silent(p) ==
  cleanup(clearTimeout(p))

\* socket.on('error', ...)
onError(p) ==
  resolve(cleanup(clearTimeout(p)), Rcpt(0, "socket_error"))

\* does the buffer hold the start of a final reply line (ddd followed by a space)?
HasFinalLine(text) ==
  \E i \in 1..Len(SplitLines(text)) :
     LET l == SplitLines(text)[i] IN LineMatches(l) /\ l[4].ch = " "

\* sendCmd(cmd), up to the call of socket.write: buffer = '' and the write is
\* issued.  On a healthy socket the command reaches the server.  A write after
\* socket.end() fails, destroys the socket and emits 'error'; a write on a
\* destroyed socket only fails.  The failure is reported to the write callback.
\* prev records how the wait before this write ended.
sendCmd(p, c, prev) ==
  LET p1 == [p EXCEPT !.buffer = <<>>, !.cmd = c, !.pc = "write"]
  IN IF p.sock = "connected" /\ ~p.closed
       THEN [p1 EXCEPT !.sent = Append(@, c), !.early = Append(@, prev)]
     ELSE IF p.sock = "connected"
       THEN onError([p1 EXCEPT !.sock = "destroyed"])
     ELSE p1

\* lines 109-113: RSET and QUIT are written, then clearTimeout, cleanup, resolve.
\* Written after socket.end(), they fail and the socket emits 'error' afterwards.
closing(p, rcpt) ==
  LET p1 == IF p.sock = "connected" /\ ~p.closed
              THEN [p EXCEPT !.sent = @ \o <<"RSET", "QUIT">>]
            ELSE p
      p2 == [resolve(cleanup(clearTimeout(p1)), rcpt) EXCEPT !.pc = "end"]
  IN IF p.sock = "connected" /\ p.closed
       THEN onError([p2 EXCEPT !.sock = "destroyed"])
     ELSE p2

\* lines 114-118: the catch block of the connect handler
catchBlock(p) ==
  [resolve(cleanup(clearTimeout(p)), Rcpt(0, "protocol_error")) EXCEPT !.pc = "end"]

\* the wait of the current command resolved with parsed
Resolved(p, parsed) ==
  LET how == IF HasFinalLine(p.buffer) THEN "complete" ELSE "partial"
  IN CASE p.cmd = "GREET" -> sendCmd(p, "EHLO", how)
       [] p.cmd = "EHLO" -> sendCmd(p, "MAIL", how)
       [] p.cmd = "MAIL" -> sendCmd(p, "RCPT", how)
       [] OTHER -> closing(p, parsed)

\* the command sequence without the .catch of line 105
Rejected_ehloFatal(p, message) ==
  CASE p.cmd \in {"EHLO", "MAIL"} -> catchBlock(p)
    [] OTHER -> closing(p, Rcpt(0, message))

\* the command sequence with a .catch on the MAIL FROM command as well
Rejected_mailTolerated(p, message) ==
  CASE p.cmd = "EHLO" -> sendCmd(p, "MAIL", "failed")
    [] p.cmd = "MAIL" -> sendCmd(p, "RCPT", "failed")
    [] OTHER -> closing(p, Rcpt(0, message))

\* the promise of the current command rejected with an error of that message
Rejected(p, message) ==
  CASE p.cmd = "EHLO" -> sendCmd(p, "MAIL", "failed")
    [] p.cmd = "MAIL" -> catchBlock(p)
    [] OTHER -> closing(p, Rcpt(0, message))

\* the body of waitResp
waitResp(p) ==
  LET parsed == parseSMTPResponse(p.buffer)
  IN IF Truthy(parsed) THEN Resolved(p, parsed[1])
     ELSE IF p.cmdAge > TIMEOUT THEN Rejected(p, "smtp command timeout")
     ELSE [p EXCEPT !.pc = "wait"]

\* the body of waitGreeting
waitGreeting(p) ==
  LET parsed == parseSMTPResponse(p.buffer)
  IN IF Truthy(parsed) THEN Resolved(p, parsed[1])
     ELSE [p EXCEPT !.pc = "greet"]

\* the callback of socket.write
writeCallback(p) ==
  IF p.sock = "destroyed" THEN Rejected(p, "write failed")
  ELSE waitResp([p EXCEPT !.cmdAge = 0])

(***************************************************************************)
(* The server                                                              *)
(***************************************************************************)
\* what the server has to answer: the connection, then the commands it received
Stimuli(p) == <<"GREET">> \o SelectSeq(p.sent, LAMBDA c : c \in {"EHLO", "MAIL", "RCPT"})

RcptCodes == {250, 350, 450, 550}

\* a server may accept EHLO or refuse it
EhloCodes == {250, 502}

\* the replies a server may give: a terse server answers every stimulus with one
\* line, a verbose one may answer the connection and EHLO with two lines
ReplyChoices(stim, server) ==
  CASE stim = "GREET" ->
         {SingleLine(220, stim)} \cup (IF server = "verbose" THEN {MultiLine(220, stim)} ELSE {})
    [] stim = "EHLO" ->
         {SingleLine(c, stim) : c \in EhloCodes}
           \cup (IF server = "verbose" THEN {MultiLine(250, stim)} ELSE {})
    [] stim = "MAIL" -> {SingleLine(250, stim)}
    [] OTHER -> {SingleLine(c, stim) : c \in RcptCodes}

(***************************************************************************)
(* verifyEmail: the loop over the hosts                                     *)
(***************************************************************************)
\* String(email).split('@'): empty parts are kept
RECURSIVE SplitAt(_)
SplitAt(text) ==
  LET at == {i \in 1..Len(text) : text[i] = "@"}
  IN IF at = {} THEN <<text>>
     ELSE LET cut == CHOOSE i \in at : \A j \in at : i <= j
          IN <<SubSeq(text, 1, cut - 1)>> \o SplitAt(SubSeq(text, cut + 1, Len(text)))

\* local.toLowerCase(), on the tokens of the model
LowerTok(tok) ==
  CASE tok = "Admin" -> "admin"
    [] tok = "SUPPORT" -> "support"
    [] OTHER -> tok

\* a comparison of the local part that keeps its case
toLowerCase_asIs(text) == text

toLowerCase(text) == [i \in 1..Len(text) |-> LowerTok(text[i])]

Domain == SplitAt(email)[2]

\* `catchall_test_${Date.now()}_${random}@${domain}`
fakeEmail == <<"catchall_test", "@">> \o Domain

\* the loop body going on to the next host after a 4xx or 5xx reply
decide_lenient(code) ==
  IF code >= 200 /\ code < 300 THEN "catchall" ELSE "continue"

\* lines 144-159: what the loop body does with the reply of the real address
decide(code) ==
  IF code = 0 THEN "continue"
  ELSE IF code >= 200 /\ code < 300 THEN "catchall"
  ELSE IF code >= 500 /\ code < 600 THEN "invalid"
  ELSE IF code >= 400 /\ code < 500 THEN "unknown"
  ELSE "continue"

\* the catch-all check taking anything but a rejection for an acceptance
catchAllVerdict_notRejected(code) ==
  IF code >= 500 /\ code < 600 THEN "valid" ELSE "catch_all"

\* lines 152-155
catchAllVerdict(code) ==
  IF code >= 200 /\ code < 300 THEN "catch_all" ELSE "valid"

Return(value) ==
  /\ classification' = <<value>>
  /\ epc' = "done"

\* smtpProbe(host, 25, from, to) is called, and logged after the calls of log.
\* The closure of the previous call, whose promise is settled and whose socket is
\* ended, is no longer read by verifyEmail and is dropped.
\* i is the position of host in hosts, at the place of the await; conns counts the
\* connections open before the call.
CallProbe(log, i, to, at, conns) ==
  /\ s' = smtpProbe(hosts'[i], to, "terse")
  /\ probes' = Append(log, [host |-> hosts'[i], to |-> to, pos |-> i, settled |-> FALSE,
                            code |-> 0])
  /\ openConns' = conns + 1
  /\ epc' = at

\* the connections left open once the closure has become p
Released(p) == openConns - (p.endCount - s.endCount)

\* the log, with the code of the reply the awaited probe settled with
Settled(p) ==
  [probes EXCEPT ![Len(probes)] =
     [@ EXCEPT !.settled = TRUE, !.code = p.result[1].code]]

\* verifyEmail returns after the probe whose closure is p
ReturnAfter(p, value) ==
  /\ Return(value)
  /\ s' = p
  /\ probes' = Settled(p)
  /\ openConns' = Released(p)
  /\ UNCHANGED idx

\* a loop that probes a host a second time before it goes on to the next
NextHost_retry(p) ==
  IF Len(SelectSeq(probes, LAMBDA e : e.pos = idx)) < 2
    THEN /\ CallProbe(Settled(p), idx, email, "probe", Released(p))
         /\ UNCHANGED <<idx, classification>>
  ELSE IF idx < Len(hosts)
    THEN /\ idx' = idx + 1
         /\ CallProbe(Settled(p), idx + 1, email, "probe", Released(p))
         /\ UNCHANGED classification
  ELSE ReturnAfter(p, "unknown")

\* continue: the next host of the loop, or the return after the loop
NextHost(p) ==
  IF idx < Len(hosts)
    THEN /\ idx' = idx + 1
         /\ CallProbe(Settled(p), idx + 1, email, "probe", Released(p))
         /\ UNCHANGED classification
  ELSE ReturnAfter(p, "unknown")

\* lines 141-159: the probe of the real address settled, its closure being p
AfterProbe(p) ==
  LET verdict == decide(p.result[1].code)
  IN CASE verdict = "continue" -> NextHost(p)
       [] verdict = "catchall" ->
            /\ CallProbe(Settled(p), idx, fakeEmail, "catchall", Released(p))
            /\ UNCHANGED <<idx, classification>>
       [] OTHER -> ReturnAfter(p, verdict)

\* lines 152-155: the probe of the generated address settled, its closure being p
AfterCatchAll(p) ==
  ReturnAfter(p, catchAllVerdict(p.result[1].code))

(***************************************************************************)
(* Actions of a probe session                                              *)
(***************************************************************************)
\* A handler of the session takes its closure to p.  When it settles the promise
\* verifyEmail awaits, the continuation of `await smtpProbe(...)` runs as a
\* microtask of that handler, before any other event is handled.
\* A closure is followed while verifyEmail awaits it, or when it stands alone
\* (SpecProbe); once verifyEmail has returned nothing reads it any more.
Step(p) ==
  IF epc \in {"probe", "catchall"} /\ p.result # <<>>
    THEN /\ UNCHANGED <<email, hosts, mxAnswer>>
         /\ IF epc = "probe" THEN AfterProbe(p) ELSE AfterCatchAll(p)
  ELSE /\ epc # "done"
       /\ s' = p
       /\ openConns' = Released(p)
       /\ UNCHANGED <<email, epc, hosts, idx, classification, mxAnswer, probes>>

Connect ==
  /\ s.sock = "connecting"
  /\ Step(waitGreeting([s EXCEPT !.sock = "connected"]))

SocketError ==
  /\ s.sock \in {"connecting", "connected"}
  /\ Step(onError([s EXCEPT !.sock = "destroyed"]))

\* The server closes the connection after the bytes it sent have arrived.  The
\* socket emits 'end' and 'close', for which no handler is registered, and is
\* destroyed without an 'error' event.
PeerClose ==
  /\ s.sock = "connected"
  /\ s.wire = <<>>
  /\ Step([s EXCEPT !.sock = "destroyed"])

ServerReply ==
  /\ s.sock = "connected"
  /\ s.answered < Len(Stimuli(s))
  /\ \E text \in ReplyChoices(Stimuli(s)[s.answered + 1], s.server) :
       Step([s EXCEPT !.wire = @ \o text, !.answered = @ + 1])

\* socket.on('data', chunk => buffer += chunk), for any chunking of the bytes
Data ==
  /\ s.sock = "connected"
  /\ \E k \in 1..Len(s.wire) :
       Step([s EXCEPT !.buffer = @ \o SubSeq(s.wire, 1, k),
                      !.wire = SubSeq(@, k + 1, Len(@))])

PollGreeting ==
  /\ s.pc = "greet"
  /\ Step(waitGreeting(s))

WriteDone ==
  /\ s.pc = "write"
  /\ Step(writeCallback(s))

PollResp ==
  /\ s.pc = "wait"
  /\ Step(waitResp(s))

TimerFires ==
  /\ s.timer = "armed"
  /\ s.timerAge >= TIMEOUT
  /\ Step(onTimer(s))

Cap(x, m) == IF x > m THEN m ELSE x

Tick ==
  /\ s.sock # "none"
  /\ Step([s EXCEPT !.timerAge = IF s.timer = "armed" THEN Cap(@ + TIMEOUT, TIMEOUT) ELSE @,
                    !.cmdAge = IF s.pc = "wait" THEN Cap(@ + TIMEOUT, 2 * TIMEOUT) ELSE @])

NextProbe ==
  \/ Connect
  \/ SocketError
  \/ PeerClose
  \/ ServerReply
  \/ Data
  \/ PollGreeting
  \/ WriteDone
  \/ PollResp
  \/ TimerFires
  \/ Tick

RealEmail == <<"bob", "@", "example.com">>

InitProbe ==
  /\ \E server \in {"terse", "verbose"} : s = smtpProbe(<<"mx1">>, RealEmail, server)
  /\ email = RealEmail
  /\ epc = "detached"
  /\ hosts = <<>>
  /\ idx = 0
  /\ classification = <<>>
  /\ mxAnswer = <<>>
  /\ probes = <<>>
  /\ openConns = 1

SpecProbe == InitProbe /\ [][NextProbe]_vars

FairProbe == SpecProbe /\ WF_vars(Tick) /\ WF_vars(TimerFires)

(***************************************************************************)
(* Inputs: addresses and DNS answers                                       *)
(***************************************************************************)
MaxMx == 2

Emails ==
  { <<"bob", "@", "example.com">>, <<"Admin", "@", "example.com">>,
    <<"bob", "@", "yopmail.com">>, <<"bob", "example.com">>,
    <<"bob", "@", "example.com", "@", "x">>, <<"SUPPORT", "@">>,
    <<"Admin", "@", "yopmail.com">>, <<"Admin">>,
    <<"Admin", "@", "example.com", "@", "x">> }

MxRecords ==
  { [priority |-> 20, exchange |-> <<"mx2", ".">>],
    [priority |-> 10, exchange |-> <<"mx1">>] }

\* the record lists dns.resolveMx may resolve with, in any order
MxAnswers == UNION {[1..n -> MxRecords] : n \in 0..MaxMx}

(***************************************************************************)
(* getMxHosts                                                              *)
(***************************************************************************)
\* mx.sort((a, b) => a.priority - b.priority): a stable sort
RECURSIVE Insert(_, _)
Insert(sorted, r) ==
  IF sorted = <<>> THEN <<r>>
  ELSE IF Head(sorted).priority <= r.priority THEN <<Head(sorted)>> \o Insert(Tail(sorted), r)
  ELSE <<r>> \o sorted

RECURSIVE SortByPriority(_)
SortByPriority(mx) ==
  IF mx = <<>> THEN <<>>
  ELSE Insert(SortByPriority(SubSeq(mx, 1, Len(mx) - 1)), mx[Len(mx)])

\* m.exchange.replace(/\.$/, '')
StripDot(exchange) ==
  IF exchange # <<>> /\ exchange[Len(exchange)] = "."
    THEN SubSeq(exchange, 1, Len(exchange) - 1)
  ELSE exchange

\* getMxHosts without the sort
mxHosts_unsorted(mx) ==
  [i \in 1..Len(mx) |-> StripDot(mx[i].exchange)]

\* lines 34-36: the value returned when resolveMx succeeds with mx
mxHosts(mx) ==
  IF Len(mx) = 0 THEN <<>>
  ELSE LET sorted == SortByPriority(mx)
       IN [i \in 1..Len(sorted) |-> StripDot(sorted[i].exchange)]

(***************************************************************************)
(* verifyEmail: the call and the resolver's lookups                        *)
(***************************************************************************)
\* verifyEmail without the check of line 135
GotHosts_probesDisposable(h) ==
  /\ hosts' = h
  /\ IF Len(h) = 0
       THEN Return("no_mx_record") /\ UNCHANGED <<s, idx, probes, openConns>>
     ELSE /\ idx' = 1
          /\ CallProbe(probes, 1, email, "probe", openConns)
          /\ UNCHANGED classification

\* lines 133-140, given the hosts getMxHosts returned
GotHosts(h) ==
  /\ hosts' = h
  /\ IF Len(h) = 0
       THEN Return("no_mx_record") /\ UNCHANGED <<s, idx, probes, openConns>>
     ELSE IF Domain \in disposableDomains
       THEN Return("disposable") /\ UNCHANGED <<s, idx, probes, openConns>>
     ELSE /\ idx' = 1
          /\ CallProbe(probes, 1, email, "probe", openConns)
          /\ UNCHANGED classification

\* verifyEmail with the role check ahead of the check of the format
VerifyEmail_roleFirst ==
  /\ epc = "start"
  /\ LET parts == SplitAt(email)
     IN IF toLowerCase(parts[1]) \in roleBased THEN Return("role_based")
        ELSE IF Len(parts) # 2 THEN Return("invalid_format")
        ELSE epc' = "resolveMx" /\ UNCHANGED classification
  /\ UNCHANGED <<s, email, hosts, idx, mxAnswer, probes, openConns>>

\* lines 124-132
VerifyEmail ==
  /\ epc = "start"
  /\ LET parts == SplitAt(email)
     IN IF Len(parts) # 2 THEN Return("invalid_format")
        ELSE IF toLowerCase(parts[1]) \in roleBased THEN Return("role_based")
        ELSE epc' = "resolveMx" /\ UNCHANGED classification
  /\ UNCHANGED <<s, email, hosts, idx, mxAnswer, probes, openConns>>

\* getMxHosts without its outer catch: the rejection of resolveMx propagates
mxCatch_missing == "rejected"

\* line 37: the catch of getMxHosts takes a failure of resolveMx to the fallback
mxCatch == "resolve4"

\* line 43: the inner catch swallows a failure of resolve4 or resolve6
lookupCatch == "swallowed"

\* a promise of getMxHosts or verifyEmail that rejects leaves the call in "rejected"
Settle(outcome) ==
  IF outcome = "swallowed" THEN GotHosts(<<>>)
  ELSE epc' = outcome /\ UNCHANGED <<s, hosts, idx, classification, probes, openConns>>

\* await dns.resolveMx(domain) settles: with records, or with an error
ResolveMx ==
  /\ epc = "resolveMx"
  /\ \/ \E mx \in MxAnswers : mxAnswer' = <<mx>> /\ GotHosts(mxHosts(mx))
     \/ Settle(mxCatch) /\ UNCHANGED mxAnswer
  /\ UNCHANGED email

\* await dns.resolve4(domain) settles: with addresses, with none, or with an error
Resolve4 ==
  /\ epc = "resolve4"
  /\ \/ GotHosts(<<Domain>>)
     \/ Settle("resolve6")
     \/ Settle(lookupCatch)
  /\ UNCHANGED <<email, mxAnswer>>

\* await dns.resolve6(domain) settles: with addresses, with none, or with an error
Resolve6 ==
  /\ epc = "resolve6"
  /\ \/ GotHosts(<<Domain>>)
     \/ GotHosts(<<>>)
     \/ Settle(lookupCatch)
  /\ UNCHANGED <<email, mxAnswer>>

Next ==
  \/ VerifyEmail
  \/ ResolveMx
  \/ Resolve4
  \/ Resolve6
  \/ NextProbe

Init ==
  /\ email \in Emails
  /\ s = NoSession
  /\ epc = "start"
  /\ hosts = <<>>
  /\ idx = 0
  /\ classification = <<>>
  /\ mxAnswer = <<>>
  /\ probes = <<>>
  /\ openConns = 0

Spec == Init /\ [][Next]_vars

\* DNS lookups settle, time advances and an armed timer that is due fires
FairSpec ==
  /\ Spec
  /\ WF_vars(VerifyEmail) /\ WF_vars(ResolveMx) /\ WF_vars(Resolve4) /\ WF_vars(Resolve6)
  /\ WF_vars(Tick) /\ WF_vars(TimerFires)

(***************************************************************************)
(* Properties                                                              *)
(***************************************************************************)
Classifications ==
  {"invalid_format", "role_based", "no_mx_record", "disposable",
   "valid", "catch_all", "invalid", "unknown"}

\* C1: verifyEmail always completes, with exactly one value of the closed
\* enumeration, whatever DNS and the probed servers do; no rejection of the
\* resolver or of a probe escapes (the call never ends rejected), and the value,
\* once returned, does not change.
C1_AlwaysOneClassification ==
  /\ <>(epc = "done")
  /\ [](epc # "rejected")
  /\ []((epc = "done") <=> (classification # <<>>))
  /\ [](classification # <<>> =>
          Len(classification) = 1 /\ classification[1] \in Classifications)
  /\ [][classification # <<>> => classification' = classification]_vars

\* resolveMx failed, the fallback gave the domain itself, its probe ended in a
\* socket error, and verifyEmail returned unknown
C1_Witness ==
  /\ epc = "done"
  /\ mxAnswer = <<>>
  /\ Len(probes) = 1
  /\ hosts = <<Domain>>
  /\ s.result # <<>>
  /\ s.result[1].message = "socket_error"
  /\ classification = <<"unknown">>

\* C2: every smtpProbe call eventually resolves, provided time advances and the
\* global timer, while armed, eventually fires; and once the promise is resolved,
\* no later event (timer, socket error, end of the command sequence, catch block)
\* changes its value.
C2_ProbeResolvesOnce ==
  /\ <>(s.result # <<>>)
  /\ [][s.result # <<>> => s'.result = s.result]_vars

\* a session that the timer resolved, and whose command sequence ended afterwards
C2_Witness ==
  /\ s.result # <<>>
  /\ s.result[1].message = "timeout"
  /\ s.pc = "end"

\* C3: a session whose global timer fired has the result {code 0, timeout}; and
\* whenever a result has been delivered, on any path, cleanup has run and the
\* socket has been ended exactly once (never more than once at any time).
C3_TimeoutAndRelease ==
  /\ s.timer = "fired" => s.result = <<Rcpt(0, "timeout")>>
  /\ s.result # <<>> => s.closed /\ s.endCount = 1
  /\ s.endCount <= 1

\* the timer fired while the session waited for the reply to RCPT TO
C3_Witness ==
  /\ s.timer = "fired"
  /\ s.cmd = "RCPT"
  /\ s.pc = "wait"
  /\ s.endCount = 1

\* C4: the reply a session returns when its command sequence completes consists
\* only of bytes the server sent in answer to RCPT TO.
C4_ResultIsRcptReply ==
  (s.result # <<>> /\ s.result[1].message = "reply") =>
    \A i \in 1..Len(s.result[1].lines) :
      \A j \in 1..Len(s.result[1].lines[i]) : s.result[1].lines[i][j].of = "RCPT"

\* C5: the commands are written in the order EHLO, MAIL FROM, RCPT TO, and each
\* is written only after the wait before it ended with a complete reply (one
\* holding a final line) or failed.
C5_NoPipelining ==
  LET cmds == SelectSeq(s.sent, LAMBDA c : c \in {"EHLO", "MAIL", "RCPT"})
  IN /\ cmds = SubSeq(<<"EHLO", "MAIL", "RCPT">>, 1, Len(cmds))
     /\ \A i \in 1..Len(s.early) : s.early[i] \in {"complete", "failed"}

\* C6: for a buffer holding only continuation lines the parser reports
\* incomplete, and for a buffer holding a final line it returns that line's code.
C6_MultiLineCompleteness ==
  LET lines == SplitLines(s.buffer)
  IN /\ (lines # <<>> /\ \A i \in 1..Len(lines) : LineMatches(lines[i]) /\ lines[i][4].ch = "-")
          => parseSMTPResponse(s.buffer) = <<>>
     /\ (lines # <<>> /\ LineMatches(lines[Len(lines)]) /\ lines[Len(lines)][4].ch = " ")
          => /\ parseSMTPResponse(s.buffer) # <<>>
             /\ parseSMTPResponse(s.buffer)[1].code = ParseInt(lines[Len(lines)])

IsReal(i) == probes[i].to = email

In(code, lo, hi) == code >= lo /\ code < hi

\* C7: after a probe of the real address settled with a code other than 0, no
\* other host is probed.
C7_FirstCodedReplyDecides ==
  \A i \in 1..Len(probes) :
    (IsReal(i) /\ probes[i].settled /\ probes[i].code # 0) =>
      \A j \in (i + 1)..Len(probes) : probes[j].pos = probes[i].pos

\* C8: the hosts are the exchanges of the records in ascending priority, each
\* without its trailing dot; the real address is probed on them in that order; a
\* probe that settles with code 0 is followed by the probe of the next host, or,
\* on the last host, by the return of unknown; a first host with code 0 and a
\* second with 2xx then 5xx gives valid; code 0 from every host gives unknown.
C8_HostOrderAndFallback ==
  /\ mxAnswer # <<>> =>
       LET mx == mxAnswer[1]
       IN /\ Len(hosts) = Len(mx)
          /\ \E f \in Permutations(1..Len(mx)) :
               /\ \A i \in 1..Len(mx) :
                    /\ hosts[i] \in {mx[f[i]].exchange} \cup
                                    {SubSeq(mx[f[i]].exchange, 1, Len(mx[f[i]].exchange) - 1)}
                    /\ hosts[i] # <<>> => hosts[i][Len(hosts[i])] # "."
               /\ \A i, j \in 1..Len(mx) :
                    i < j => mx[f[i]].priority <= mx[f[j]].priority
  /\ LET real == SelectSeq(probes, LAMBDA e : e.to = email)
     IN \A k \in 1..Len(real) : real[k].pos = k /\ real[k].host = hosts[k]
  /\ \A i \in 1..Len(probes) :
       (IsReal(i) /\ probes[i].settled /\ probes[i].code = 0) =>
         IF probes[i].pos < Len(hosts)
           THEN /\ i < Len(probes)
                /\ IsReal(i + 1)
                /\ probes[i + 1].pos = probes[i].pos + 1
         ELSE /\ i = Len(probes)
              /\ epc = "done"
              /\ classification = <<"unknown">>
  /\ ( /\ Len(probes) = 3
       /\ probes[3].settled
       /\ probes[1].code = 0
       /\ In(probes[2].code, 200, 300)
       /\ In(probes[3].code, 500, 600) ) => classification = <<"valid">>
  /\ ( /\ epc = "done"
       /\ probes # <<>>
       /\ \A i \in 1..Len(probes) : probes[i].code = 0 /\ IsReal(i) )
       => classification = <<"unknown">>

\* records given out of order, the first host settles with code 0, the second
\* answers 250 to the real and 550 to the generated address: valid
C8_Witness ==
  /\ mxAnswer = << <<[priority |-> 20, exchange |-> <<"mx2", ".">>],
                     [priority |-> 10, exchange |-> <<"mx1">>]>> >>
  /\ hosts = << <<"mx1">>, <<"mx2">> >>
  /\ Len(probes) = 3
  /\ probes[1].code = 0 /\ probes[2].code = 250 /\ probes[3].code = 550
  /\ probes[3].settled
  /\ classification = <<"valid">>

\* C9: a 2xx reply to the real address is followed by exactly one more probe, on
\* the same host, for the generated recipient at the same domain; when it has
\* settled the classification is catch_all if its code is 2xx and valid
\* otherwise; no other probe follows.
C9_CatchAllCheck ==
  \A i \in 1..Len(probes) :
    (IsReal(i) /\ probes[i].settled /\ In(probes[i].code, 200, 300)) =>
      /\ Len(probes) = i + 1
      /\ probes[i + 1].host = probes[i].host
      /\ probes[i + 1].pos = probes[i].pos
      /\ probes[i + 1].to # email
      /\ Len(SplitAt(probes[i + 1].to)) = 2
      /\ SplitAt(probes[i + 1].to)[2] = SplitAt(email)[2]
      /\ probes[i + 1].settled =>
           /\ epc = "done"
           /\ classification =
                IF In(probes[i + 1].code, 200, 300) THEN <<"catch_all">> ELSE <<"valid">>

\* the host accepted the real address and the second probe ended without a reply
C9_Witness ==
  /\ Len(probes) = 2
  /\ probes[1].code = 250
  /\ probes[2].settled /\ probes[2].code = 0
  /\ classification = <<"valid">>

\* C10: a 5xx reply to the real address gives invalid and a 4xx reply gives
\* unknown; in both cases verifyEmail has returned and that probe is the last
\* one: no catch-all probe, no further host.
C10_RejectionStops ==
  \A i \in 1..Len(probes) :
    (IsReal(i) /\ probes[i].settled) =>
      /\ In(probes[i].code, 500, 600) =>
           i = Len(probes) /\ epc = "done" /\ classification = <<"invalid">>
      /\ In(probes[i].code, 400, 500) =>
           i = Len(probes) /\ epc = "done" /\ classification = <<"unknown">>

\* the first of two hosts answered 450: unknown, and the second was not probed
C10_Witness ==
  /\ Len(hosts) = 2
  /\ Len(probes) = 1
  /\ probes[1].settled /\ probes[1].code = 450
  /\ epc = "done"
  /\ classification = <<"unknown">>

\* no lookup has been made, no host is known and no session was opened
NothingStarted ==
  /\ epc \in {"start", "done"}
  /\ hosts = <<>>
  /\ mxAnswer = <<>>
  /\ probes = <<>>
  /\ openConns = 0
  /\ s = NoSession

\* C11: for an address whose domain is in the disposable set, once the resolver
\* has returned at least one host verifyEmail has returned disposable, and no
\* probe session was opened.
C11_DisposableNotProbed ==
  (Len(SplitAt(email)) = 2 /\ Domain \in disposableDomains /\ hosts # <<>>) =>
    /\ epc = "done"
    /\ classification = <<"disposable">>
    /\ probes = <<>>
    /\ openConns = 0
    /\ s = NoSession

\* a disposable domain with two mail exchangers
C11_Witness ==
  /\ email = <<"bob", "@", "yopmail.com">>
  /\ Len(hosts) = 2
  /\ classification = <<"disposable">>

\* the address has exactly one '@' and a local part that is, but for its case, a
\* role name
RoleAddress ==
  LET parts == SplitAt(email)
  IN /\ Len(parts) = 2
     /\ [i \in 1..Len(parts[1]) |-> LowerTok(parts[1][i])] \in roleBased

\* C12: for an address with exactly one '@' whose local part is, compared without
\* case, a role name, verifyEmail returns role_based whatever the domain, and no
\* DNS lookup is awaited and no probe session opened at any time of the call.
C12_RoleBasedFirst ==
  RoleAddress =>
    /\ NothingStarted
    /\ epc = "done" => classification = <<"role_based">>

\* a role name in another case at a disposable domain
C12_Witness ==
  /\ email = <<"Admin", "@", "yopmail.com">>
  /\ epc = "done"
  /\ classification = <<"role_based">>

\* C13: for an address that does not hold exactly one '@', verifyEmail returns
\* invalid_format, also when its first part is a role name, and no DNS lookup is
\* awaited and no probe session opened at any time of the call.
C13_InvalidFormatFirst ==
  Len(SplitAt(email)) # 2 =>
    /\ NothingStarted
    /\ epc = "done" => classification = <<"invalid_format">>

\* two '@' after a role name
C13_Witness ==
  /\ email = <<"Admin", "@", "example.com", "@", "x">>
  /\ epc = "done"
  /\ classification = <<"invalid_format">>

\* C14: getMxHosts goes on to the IPv4 lookup both when resolveMx fails and when
\* it resolves with zero records, and verifyEmail returns no_mx_record only out
\* of an address lookup that found nothing, never straight out of resolveMx.
C14_FallbackOnEmptyMx ==
  [][ /\ (epc = "resolveMx" /\ mxAnswer' \in {<<>>, << <<>> >>}) => epc' = "resolve4"
      /\ (classification = <<>> /\ classification' = <<"no_mx_record">>)
           => epc \in {"resolve4", "resolve6"} ]_vars

\* C15: after resolveMx failed, an IPv4 lookup that gives no address, by an empty
\* answer or by an error, is followed by the IPv6 lookup; and no error of a lookup
\* leaves getMxHosts or verifyEmail rejected.
C15_Ipv6AfterIpv4 ==
  /\ [][epc = "resolve4" => (hosts' = <<Domain>> \/ epc' = "resolve6")]_vars
  /\ [](epc # "rejected")

\* the command reached the server
Written(c) == \E i \in 1..Len(s.sent) : s.sent[i] = c

\* the command sequence ended at MAIL FROM: its write failed or its wait timed out
MailFailed == s.cmd = "MAIL" /\ s.pc = "end"

\* C16, as stated: when MAIL FROM has failed, the result of the session is the
\* reply of code 0 with the message protocol_error, and RCPT TO was not written.
C16_MailFailureIsProtocolError ==
  MailFailed => s.result = <<Rcpt(0, "protocol_error")>> /\ ~Written("RCPT")

\* C16, amended: when MAIL FROM has failed, the session has a result of code 0
\* and its connection is released; the result is protocol_error if none had been
\* delivered before the failure, and otherwise stays the timeout or socket_error
\* delivered earlier.  The sequence stops there: RCPT TO is never written, and it
\* is written only after the wait of MAIL FROM ended with a reply.
C16_MailFailureEndsSession ==
  /\ [](MailFailed =>
          /\ s.result # <<>>
          /\ s.result[1].code = 0
          /\ s.result[1].message \in {"protocol_error", "timeout", "socket_error"}
          /\ s.closed /\ s.endCount = 1 /\ s.timer # "armed"
          /\ ~Written("RCPT"))
  /\ [][(s.cmd = "MAIL" /\ s.pc # "end" /\ s'.pc = "end") =>
          s'.result = IF s.result = <<>> THEN <<Rcpt(0, "protocol_error")>> ELSE s.result]_vars
  /\ [][MailFailed => s'.cmd = "MAIL" /\ s'.pc = "end" /\ s'.sent = s.sent]_vars
  /\ [][(s.cmd = "MAIL" /\ s'.cmd # "MAIL") =>
          s'.cmd = "RCPT" /\ Truthy(parseSMTPResponse(s.buffer))]_vars

\* the server closed the connection after its reply to EHLO: the write of MAIL
\* FROM failed before any result was delivered, and the result is protocol_error
C16_Witness ==
  /\ MailFailed
  /\ s.sock = "destroyed"
  /\ Written("EHLO") /\ ~Written("MAIL")
  /\ s.timer = "cleared"
  /\ s.result = <<Rcpt(0, "protocol_error")>>

\* C17: the command sequence never ends at EHLO: however EHLO ends (a reply of
\* any code, a failed write, a wait that timed out), the next thing the session
\* does is the write of MAIL FROM; and the step that ends EHLO leaves the result
\* of the session as it was: while EHLO is the current command only the global
\* timer or a socket error sets the result.
C17_EhloNonFatal ==
  /\ [](s.cmd = "EHLO" => s.pc \in {"write", "wait"})
  /\ [][(s.cmd = "EHLO" /\ s'.cmd # "EHLO") =>
          /\ s'.cmd = "MAIL" /\ s'.pc = "write" /\ s'.buffer = <<>>
          /\ s'.result = s.result]_vars
  /\ [][(s.cmd = "EHLO" /\ s'.result # s.result) =>
          /\ s.result = <<>>
          /\ s'.result[1].message \in {"timeout", "socket_error"}]_vars

\* the server closed the connection after its greeting: the write of EHLO failed,
\* the session went on to the write of MAIL FROM, and there is no result yet
C17_Witness ==
  /\ s.cmd = "MAIL"
  /\ s.pc = "write"
  /\ s.sock = "destroyed"
  /\ ~Written("EHLO")
  /\ s.result = <<>>

\* C18: when the wait for the reply to RCPT TO times out, on a connection that
\* had no error, the result of the session is the reply {code 0, smtp command
\* timeout}, RSET and QUIT are written to the server and the connection is
\* released: the global timer has not pre-empted the timeout of the command.
C18_RcptTimeoutIsResult ==
  [][ ( /\ s.cmd = "RCPT" /\ s.pc = "wait" /\ s.sock = "connected"
        /\ ~Truthy(parseSMTPResponse(s.buffer))
        /\ s.cmdAge > TIMEOUT
        /\ s'.pc = "end" ) =>
      /\ s'.result = <<Rcpt(0, "smtp command timeout")>>
      /\ s'.sent = s.sent \o <<"RSET", "QUIT">>
      /\ s'.closed /\ s'.endCount = 1 ]_vars

\* the promise was resolved by the global timer or by the error handler
Delivered ==
  s.result # <<>> /\ s.result[1].message \in {"timeout", "socket_error"}

\* sendCmd is called: a command is handed to socket.write
IssuesWrite ==
  s'.pc = "write" /\ (s.pc # "write" \/ s'.cmd # s.cmd)

\* C19: once the result is delivered by the global timer or a socket error, the
\* session hands no further command to socket.write, and no polling loop is left
\* that cannot stop: the loop of waitGreeting, which has no timeout, does not go
\* on polling a destroyed socket, from which no byte will arrive.
C19_QuiescentAfterDelivery ==
  /\ [][Delivered => ~IssuesWrite]_vars
  /\ []((Delivered /\ s.sock = "destroyed") => s.pc # "greet")

\* C20: at most one probe connection is open at any time of a verifyEmail call:
\* every probe but the latest has delivered its result, and only the session of
\* the latest probe can hold a connection, which it has released once its socket
\* is ended; each entry of the host list is probed with the real address at most
\* once, in ascending position; and the probes are at most one more than the
\* hosts.
C20_OneProbeAtATime ==
  /\ openConns \in {0, 1}
  /\ \A i \in 1..(Len(probes) - 1) : probes[i].settled
  /\ probes # <<>> => openConns = (IF s.closed THEN 0 ELSE 1)
  /\ probes = <<>> => openConns = 0
  /\ \A i, j \in 1..Len(probes) :
       (i < j /\ IsReal(i) /\ IsReal(j)) => probes[i].pos < probes[j].pos
  /\ Len(SelectSeq(probes, LAMBDA e : e.to # email)) <= 1
  /\ Len(probes) <= Len(hosts) + 1

\* the first host's probe has delivered its result and released its connection,
\* and the second host's probe holds the only open connection
C20_Witness ==
  /\ Len(hosts) = 2
  /\ Len(probes) = 2
  /\ probes[1].settled
  /\ probes[2].pos = 2 /\ ~probes[2].settled
  /\ s.sock = "connected" /\ ~s.closed
  /\ openConns = 1

====
